---- MODULE Spec2Model ----
(***************************************************************************)
(* A state-machine model of WifiStation (esp-wifi-connect, wifi_station.cc) *)
(* together with the part of the Wi-Fi driver and of the default event loop *)
(* that its handlers talk to.                                               *)
(*                                                                          *)
(* Contexts: the event-loop task runs WifiEventHandler and IpEventHandler   *)
(* (one event at a time, in posting order); the esp_timer task runs the     *)
(* scan timer callback; callers run Start, Stop, SetScanIntervalRange and   *)
(* WaitForConnected.  An event posted to the loop stays queued until the    *)
(* loop task dispatches it; it is delivered to the handlers registered at   *)
(* dispatch time and dropped when there is none.                            *)
(*                                                                          *)
(* Interval arithmetic: the three scan intervals are C ints (32 bit) that   *)
(* count microseconds.  Every value the code can store is a multiple of     *)
(* 64 us (seconds * 1000 * 1000, its doublings, and their residues modulo   *)
(* 2^32), so the model stores value/64 and wraps modulo 2^26: the same      *)
(* arithmetic, scaled so that 32-bit model integers can hold it.            *)
(***************************************************************************)
EXTENDS Integers, Sequences, FiniteSets, TLC

\* ------------------------------------------------------------ bounds
MaxAps == 2          \* access points reported by one scan
MaxEvents == 1       \* events queued in the event loop when the driver posts one more
MaxTimeoutTicks == 2 \* ticks a WaitForConnected caller may ask for

\* ------------------------------------------------------ program constants
MAX_RECONNECT_COUNT == 5

\* one second in stored units: 1000 * 1000 us / 64
UnitsPerSecond == 15625
\* half the range of a 32-bit int, in stored units: 2^31 / 64
IntHalf == 2^25

Wrap32(v) == ((v + IntHalf) % (2 * IntHalf)) - IntHalf
FitsInt(v) == v >= -IntHalf /\ v < IntHalf

\* Signed overflow is undefined behaviour.  seconds * 1000 * 1000 is computed
\* from a run-time argument and stored in a field at once: the multiply
\* instruction leaves the two's-complement residue, and no comparison follows
\* that a compiler could decide from the absence of overflow.
MulOutcomes(v) == {Wrap32(v)}

\* For the doubling in UpdateScanInterval, followed by the comparison with
\* the maximum: the residue, or (the compiler reasoning that no overflow
\* happens, so that 2*cur > max) the clamp to max.
DoubleOutcomes(cur, max) ==
    IF FitsInt(2 * cur) THEN {2 * cur} ELSE {Wrap32(2 * cur), max}

\* ------------------------------------------------------------ environment
\* the auth modes of wifi_auth_mode_t that StartConnect treats as enterprise
EnterpriseModes == {"WPA2_ENTERPRISE", "WPA2_WPA3_ENTERPRISE"}

\* SsidManager::GetSsidList(): the credential store, unique by ssid
ssid_list ==
    << [ssid |-> "CafeWifi", password |-> "",     username |-> "guest"],
       [ssid |-> "Corp",     password |-> "pw-c", username |-> "alice"],
       [ssid |-> "Home",     password |-> "pw-h", username |-> ""],
       [ssid |-> "Lab",      password |-> "pw-l", username |-> ""] >>

\* The access points in range, as wifi_ap_record_t reports them (bssid
\* identifies one): an open network with a portal account, an enterprise
\* network with an account, a network in an enterprise mode whose entry has no
\* username and an unknown network; "Home" is known but out of range.  Two
\* pairs are equally strong and the order of bssid is not the order of rssi.
ApRecords ==
    { [bssid |-> 1, ssid |-> "CafeWifi", authmode |-> "OPEN",                 rssi |-> -50],
      [bssid |-> 2, ssid |-> "Corp",     authmode |-> "WPA2_ENTERPRISE",      rssi |-> -50],
      [bssid |-> 3, ssid |-> "Lab",      authmode |-> "WPA2_WPA3_ENTERPRISE", rssi |-> -40],
      [bssid |-> 4, ssid |-> "OtherNet", authmode |-> "OPEN",                 rssi |-> -40] }

Range(s) == { s[i] : i \in 1..Len(s) }

\* what esp_wifi_scan_get_ap_records can return: at most MaxAps records of
\* distinct access points.  std::sort's specified outcome does not depend on
\* the order of its input, so one order per set of records is drawn.
ScanLists ==
    { s \in UNION { [1..n -> ApRecords] : n \in 0..MaxAps } :
        \A i, j \in 1..Len(s) : i < j => s[i].bssid < s[j].bssid }

\* the range the fields are initialised with (their initialisers are in
\* wifi_station.h), in seconds
DefaultScanRange == <<1, 3>>
\* the ranges SetScanIntervalRange is called with, in seconds, 0 < min <= max;
\* 3000 s is more than 2^31 microseconds
ScanRanges == { <<1, 3>>, <<1, 3000>> }

NoAp == [ssid |-> "", password |-> "", username |-> "", authmode |-> "NONE", bssid |-> 0]

Event(t) == [type |-> t, stale |-> FALSE]

\* no "portal_login" task is followed
NoTask == [pc |-> "none"]
NoBoard == [pc |-> "none"]

VARIABLES
    \* WifiStation
    event_group_,           \* subset of {"CONNECTED", "STOPPED", "SCAN_DONE"}
    was_connected_,
    instance_any_id_,       \* TRUE: WifiEventHandler is registered
    instance_got_ip_,       \* TRUE: IpEventHandler is registered
    timer_handle_,          \* TRUE: the scan timer exists
    connect_queue_,
    ssid_, password_,
    needs_portal_login_, pending_portal_username_, pending_portal_password_,
    reconnect_count_,
    scan_min_interval_microseconds_,
    scan_max_interval_microseconds_,
    scan_current_interval_microseconds_,
    \* esp_timer
    timer_armed,            \* the one-shot scan timer is running
    timer_pc,               \* the timer callback: "idle", or "scan" once it has
                            \* seen IsConnected() false and is about to scan
    \* Wi-Fi driver and event loop
    wifi_started,           \* between esp_wifi_start and esp_wifi_stop
    scanning,               \* a scan is in progress
    sta,                    \* "idle", "connecting" or "up"
    sta_config,             \* the candidate esp_wifi_set_config was given
    events,                 \* events posted and not yet dispatched
    \* a caller of WaitForConnected
    wait_pc,                \* "idle", "waiting", "timedout" or "released"
    wait_ticks,             \* ticks left of the timeout
    wait_bits,              \* the group's bits when the caller was released
    \* history: what the last operation was given and what it issued
    last,
    same_retries,           \* re-connect commands since StartConnect's connect command
                            \* or the last IP-acquired event
    join_launched,          \* a portal task was launched since the last connect
                            \* command or disconnect event
    \* the "portal_login" task
    portal_task,            \* the locals of the task in flight, or NoTask
    \* WifiBoard
    board                   \* wifi_config_mode_ and the locals of StartNetwork, or
                            \* NoBoard where the station is driven by another caller

station_vars ==
    << event_group_, was_connected_, instance_any_id_, instance_got_ip_,
       timer_handle_, connect_queue_, ssid_, password_, needs_portal_login_,
       pending_portal_username_, pending_portal_password_, reconnect_count_,
       scan_min_interval_microseconds_, scan_max_interval_microseconds_,
       scan_current_interval_microseconds_ >>
driver_vars == << timer_armed, timer_pc, wifi_started, scanning, sta, sta_config, events >>
driver_vars_but_events == << timer_armed, timer_pc, wifi_started, scanning, sta, sta_config >>
wait_vars == << wait_pc, wait_ticks, wait_bits >>
task_vars == << join_launched, portal_task >>
vars == << station_vars, driver_vars, wait_vars, last, same_retries, task_vars, board >>

\* the connection context and the candidate queue
context_vars ==
    << connect_queue_, ssid_, password_, needs_portal_login_,
       pending_portal_username_, pending_portal_password_, reconnect_count_,
       scan_current_interval_microseconds_, was_connected_ >>
portal_vars ==
    << needs_portal_login_, pending_portal_username_, pending_portal_password_ >>
range_vars ==
    << scan_min_interval_microseconds_, scan_max_interval_microseconds_ >>

Did(op, given, out, ranked) == [op |-> op, given |-> given, out |-> out, ranked |-> ranked]
\* after a step of the driver, of the event loop alone or of a waiting caller
Quiet == Did("none", << >>, << >>, << >>)

Entry(cmd, ssid, us) == [cmd |-> cmd, ssid |-> ssid, us |-> us]
Cmds(out) == { out[i].cmd : i \in 1..Len(out) }

\* ------------------------------------------------------- driver commands
\* esp_wifi_scan_start: refused while the driver is stopped or the station is
\* connecting; the return value is not looked at by any caller.
ScanStart(sc, s) == IF wifi_started /\ s # "connecting" THEN TRUE ELSE sc

\* esp_wifi_connect on the current configuration
Connect(s, cfg) == IF wifi_started /\ cfg # NoAp /\ s = "idle" THEN "connecting" ELSE s

\* esp_wifi_disconnect: a station that is connecting or connected leaves and
\* the driver posts WIFI_EVENT_STA_DISCONNECTED
DisconnectPosts(s) ==
    IF wifi_started /\ s # "idle" THEN << Event("STA_DISCONNECTED") >> ELSE << >>

\* a backoff timer that is never armed
TimerStartNever == FALSE

\* esp_timer_start_once: refused when the timer is already running
TimerStartOk == timer_handle_ /\ ~timer_armed

\* xEventGroupSetBits / xEventGroupClearBits seen from a blocked
\* xEventGroupWaitBits(CONNECTED | STOPPED, clear = no, all = no)
WaitedBits == {"CONNECTED", "STOPPED"}
Release(bits) ==
    IF wait_pc \in {"waiting", "timedout"} /\ bits \cap WaitedBits # {}
    THEN /\ wait_pc' = "released"
         /\ wait_bits' = bits
         /\ wait_ticks' = 0
    ELSE UNCHANGED wait_vars

\* ---------------------------------------------------- UpdateScanInterval
UpdateScanInterval(cur, max) ==
    IF cur < max
    THEN { IF d > max THEN max ELSE d : d \in DoubleOutcomes(cur, max) }
    ELSE {cur}

\* --------------------------------------------------- the ranking of a scan
\* std::sort by a.rssi > b.rssi: any arrangement in descending rssi (the order
\* of records of equal rssi is unspecified)
SortByRssi(aps) ==
    { s \in [1..Len(aps) -> Range(aps)] :
        /\ Range(s) = Range(aps)
        /\ \A i \in 1..Len(s) - 1 : s[i].rssi >= s[i + 1].rssi }

\* std::find_if over the list GetSsidList() returned, with strcmp: the first
\* entry of that ssid, 0 if none
FindKnownIn(list, ssid) ==
    LET hits == { i \in 1..Len(list) : list[i].ssid = ssid }
    IN  IF hits = {} THEN 0 ELSE CHOOSE i \in hits : \A j \in hits : i <= j

FindKnown(ssid) == FindKnownIn(ssid_list, ssid)

\* the WifiApRecord built from a scan record and its credential entry
CandidateIn(list, ap) ==
    LET it == list[FindKnownIn(list, ap.ssid)]
    IN  [ssid |-> it.ssid, password |-> it.password, username |-> it.username,
         authmode |-> ap.authmode, bssid |-> ap.bssid]

Candidate(ap) == CandidateIn(ssid_list, ap)

\* the loop over the sorted records: a candidate for each record whose ssid
\* has an entry
RECURSIVE MatchKnownIn(_, _)
MatchKnownIn(list, sorted) ==
    IF sorted = << >> THEN << >>
    ELSE IF FindKnownIn(list, Head(sorted).ssid) # 0
         THEN << CandidateIn(list, Head(sorted)) >> \o MatchKnownIn(list, Tail(sorted))
         ELSE MatchKnownIn(list, Tail(sorted))

MatchKnown(sorted) == MatchKnownIn(ssid_list, sorted)

\* StartConnect has moved on: the disconnect events still queued belong to an
\* earlier attempt
MarkStale(evs) ==
    [ i \in 1..Len(evs) |->
        IF evs[i].type = "STA_DISCONNECTED" THEN [evs[i] EXCEPT !.stale = TRUE] ELSE evs[i] ]

\* ------------------------------------------------------------ StartConnect
IsEnterprise(ap) == ap.username # "" /\ ap.authmode \in EnterpriseModes
NeedsPortal(ap) == ap.username # "" /\ ~IsEnterprise(ap)

\* the portal state StartConnect leaves for candidate ap
PortalStateKeepsFlag(ap) ==
    IF NeedsPortal(ap) THEN << TRUE, ap.username, ap.password >>
    ELSE << needs_portal_login_, "", "" >>

PortalState(ap) ==
    IF NeedsPortal(ap) THEN << TRUE, ap.username, ap.password >>
    ELSE << FALSE, "", "" >>

\* StartConnect on queue q, with evs the events still queued, out what the
\* calling handler has issued so far; op, given, ranked describe the caller.
StartConnect(q, evs, op, given, ranked, out) ==
    IF q = << >>
    THEN /\ scanning' = ScanStart(scanning, sta)
         /\ connect_queue_' = q
         /\ events' = evs
         /\ last' = Did(op, given, out \o << Entry("scan_start", "", 0) >>, ranked)
         /\ UNCHANGED same_retries
         /\ UNCHANGED << ssid_, password_, portal_vars, reconnect_count_, sta, sta_config >>
         /\ UNCHANGED << timer_armed, scan_current_interval_microseconds_ >>
    ELSE LET ap == Head(q)
             ps == PortalState(ap)
         IN  /\ connect_queue_' = Tail(q)
             /\ ssid_' = ap.ssid
             /\ password_' = ap.password
             /\ events' = MarkStale(evs \o DisconnectPosts(sta))
             /\ needs_portal_login_' = ps[1]
             /\ pending_portal_username_' = ps[2]
             /\ pending_portal_password_' = ps[3]
             /\ sta_config' = ap
             /\ reconnect_count_' = 0
             /\ sta' = Connect("idle", ap)
             /\ last' = Did(op, given,
                            out \o << Entry("on_connect", ap.ssid, 0),
                                      Entry("disconnect", "", 0),
                                      Entry(IF IsEnterprise(ap) THEN "ent_enable" ELSE "ent_disable",
                                            ap.ssid, 0),
                                      Entry("set_config", ap.ssid, ap.bssid),
                                      Entry("connect", ap.ssid, ap.bssid) >>,
                            ranked)
             /\ same_retries' = 0
             /\ UNCHANGED << scanning, timer_armed, scan_current_interval_microseconds_ >>

\* esp_timer_start_once(timer_handle_, current interval); UpdateScanInterval()
\* with queue q left behind and evs the events still queued
Rescan(q, evs, op, given, ranked, out) ==
    /\ timer_armed' = (timer_armed \/ TimerStartOk)
    /\ scan_current_interval_microseconds_' \in
           UpdateScanInterval(scan_current_interval_microseconds_,
                              scan_max_interval_microseconds_)
    /\ connect_queue_' = q
    /\ events' = evs
    /\ last' = Did(op, given,
                   out \o << Entry(IF TimerStartOk THEN "timer_start" ELSE "timer_start_refused",
                                   "", scan_current_interval_microseconds_) >>,
                   ranked)
    /\ UNCHANGED << ssid_, password_, portal_vars, reconnect_count_, sta, sta_config, scanning,
                    same_retries >>

\* ----------------------------------------------------------------- Init
InitStation ==
    /\ event_group_ = {}
    /\ was_connected_ = FALSE
    /\ instance_any_id_ = FALSE
    /\ instance_got_ip_ = FALSE
    /\ timer_handle_ = FALSE
    /\ connect_queue_ = << >>
    /\ ssid_ = ""
    /\ password_ = ""
    /\ needs_portal_login_ = FALSE
    /\ pending_portal_username_ = ""
    /\ pending_portal_password_ = ""
    /\ reconnect_count_ = 0
    /\ scan_min_interval_microseconds_ = DefaultScanRange[1] * UnitsPerSecond
    /\ scan_max_interval_microseconds_ = DefaultScanRange[2] * UnitsPerSecond
    /\ scan_current_interval_microseconds_ = scan_min_interval_microseconds_
    /\ timer_armed = FALSE
    /\ timer_pc = "idle"
    /\ wifi_started = FALSE
    /\ scanning = FALSE
    /\ sta = "idle"
    /\ sta_config = NoAp
    /\ events = << >>
    /\ wait_pc = "idle"
    /\ wait_ticks = 0
    /\ wait_bits = {}
    /\ last = Did("construct", << >>, << >>, << >>)
    /\ same_retries = 0
    /\ join_launched = FALSE
    /\ portal_task = NoTask

\* the station driven by its caller directly: no board beside it
Init == InitStation /\ board = NoBoard

\* ------------------------------------------------------- caller operations
\* Start as called by caller, whose own state changes as caller says
StartBy(caller) ==
    /\ ~instance_any_id_
    /\ Len(events) <= MaxEvents
    /\ event_group_' = event_group_ \ {"STOPPED", "SCAN_DONE"}
    /\ instance_any_id_' = TRUE
    /\ instance_got_ip_' = TRUE
    /\ wifi_started' = TRUE
    /\ events' = events \o << Event("STA_START") >>
    /\ timer_handle_' = TRUE
    /\ timer_armed' = FALSE
    /\ UNCHANGED timer_pc
    /\ last' = Did("Start", << >>, << >>, << >>)
    /\ caller
    /\ UNCHANGED << context_vars, range_vars, scanning, sta, sta_config, wait_vars,
                    same_retries, task_vars >>

Start == StartBy(UNCHANGED board)

StopBits == (event_group_ \ {"CONNECTED"}) \cup {"STOPPED"}

\* a Stop that leaves was_connected_ as it finds it
WasConnectedAfterStopKept == was_connected_
\* was_connected_ = false
WasConnectedAfterStop == FALSE

\* Stop as called by caller, whose own state changes as caller says
StopBy(caller) ==
    /\ instance_any_id_' = FALSE
    /\ instance_got_ip_' = FALSE
    /\ timer_handle_' = FALSE
    /\ timer_armed' = FALSE
    /\ UNCHANGED timer_pc
    /\ scanning' = FALSE
    /\ events' = events \o DisconnectPosts(sta)
    /\ sta' = "idle"
    /\ wifi_started' = FALSE
    /\ was_connected_' = WasConnectedAfterStop
    /\ event_group_' = StopBits
    /\ Release(event_group_')
    /\ last' = Did("Stop", << >>, << Entry("disconnect", "", 0) >>, << >>)
    /\ UNCHANGED << connect_queue_, ssid_, password_, portal_vars, reconnect_count_,
                    scan_current_interval_microseconds_, range_vars, sta_config,
                    same_retries, task_vars >>
    /\ caller

Stop == StopBy(UNCHANGED board)

SetScanIntervalRange(min_interval_seconds, max_interval_seconds) ==
    /\ scan_min_interval_microseconds_' \in MulOutcomes(min_interval_seconds * UnitsPerSecond)
    /\ scan_max_interval_microseconds_' \in MulOutcomes(max_interval_seconds * UnitsPerSecond)
    /\ scan_current_interval_microseconds_' = scan_min_interval_microseconds_'
    /\ last' = Did("SetScanIntervalRange", << >>, << >>, << >>)
    /\ UNCHANGED << event_group_, was_connected_, instance_any_id_, instance_got_ip_,
                    timer_handle_, connect_queue_, ssid_, password_, portal_vars,
                    reconnect_count_, driver_vars, wait_vars, board, same_retries, task_vars >>

SetRange == \E r \in ScanRanges : SetScanIntervalRange(r[1], r[2])

\* the scan timer's callback, on the esp_timer task: the timer expires and
\* the callback reads IsConnected()
TimerCallback ==
    /\ timer_armed
    /\ timer_pc = "idle"
    /\ timer_armed' = FALSE
    /\ timer_pc' = IF "CONNECTED" \notin event_group_ THEN "scan" ELSE "idle"
    /\ last' = Did("TimerCallback", << >>, << >>, << >>)
    /\ UNCHANGED << station_vars, wifi_started, scanning, sta, sta_config, events,
                    wait_vars, board, same_retries, task_vars >>

\* the callback goes on to esp_wifi_scan_start; Stop does not wait for it
TimerCallbackScans ==
    /\ timer_pc = "scan"
    /\ timer_pc' = "idle"
    /\ scanning' = ScanStart(scanning, sta)
    /\ last' = Did("TimerCallback", << >>, << Entry("scan_start", "", 0) >>, << >>)
    /\ UNCHANGED << station_vars, timer_armed, wifi_started, sta, sta_config, events,
                    wait_vars, board, same_retries, task_vars >>

\* ------------------------------------------------------------ the driver
Post(e) ==
    /\ Len(events) < MaxEvents
    /\ events' = events \o << e >>
    /\ last' = Quiet
    /\ UNCHANGED << station_vars, timer_armed, timer_pc, wifi_started, sta_config, wait_vars, board,
                    same_retries, task_vars >>

\* a scan ends
DriverScanDone ==
    /\ wifi_started /\ scanning
    /\ Post(Event("SCAN_DONE"))
    /\ scanning' = FALSE
    /\ UNCHANGED sta

\* a connect attempt fails
DriverConnectFails ==
    /\ wifi_started /\ sta = "connecting"
    /\ Post(Event("STA_DISCONNECTED"))
    /\ sta' = "idle"
    /\ UNCHANGED scanning

\* a connect attempt succeeds and DHCP hands out an address
DriverGotIp ==
    /\ wifi_started /\ sta = "connecting"
    /\ Post(Event("GOT_IP"))
    /\ sta' = "up"
    /\ UNCHANGED scanning

\* the lease is renewed: IP_EVENT_STA_GOT_IP is posted again
DriverRenews ==
    /\ wifi_started /\ sta = "up"
    /\ Post(Event("GOT_IP"))
    /\ UNCHANGED << sta, scanning >>

\* the link of a connected station is lost
DriverLinkLost ==
    /\ wifi_started /\ sta = "up"
    /\ Post(Event("STA_DISCONNECTED"))
    /\ sta' = "idle"
    /\ UNCHANGED scanning

\* ------------------------------------------------------ the event handlers
Registered(e) == IF e.type = "GOT_IP" THEN instance_got_ip_ ELSE instance_any_id_

\* an event dispatched while no handler is registered for it
DropEvent ==
    /\ events # << >>
    /\ ~Registered(Head(events))
    /\ events' = Tail(events)
    /\ last' = Quiet
    /\ UNCHANGED << station_vars, timer_armed, timer_pc, wifi_started, scanning, sta, sta_config,
                    wait_vars, board, same_retries, task_vars >>

\* WifiEventHandler, case WIFI_EVENT_STA_START
HandleStaStart ==
    /\ events # << >>
    /\ Head(events).type = "STA_START"
    /\ instance_any_id_
    /\ events' = Tail(events)
    /\ scanning' = ScanStart(scanning, sta)
    /\ last' = Did("STA_START", << >>,
                   << Entry("scan_start", "", 0), Entry("on_scan_begin", "", 0) >>, << >>)
    /\ UNCHANGED << station_vars, timer_armed, timer_pc, wifi_started, sta, sta_config, wait_vars, board,
                    same_retries, task_vars >>

\* WifiEventHandler, case WIFI_EVENT_SCAN_DONE: HandleScanResult
HandleScanDone ==
    /\ events # << >>
    /\ Head(events).type = "SCAN_DONE"
    /\ instance_any_id_
    /\ event_group_' = event_group_ \cup {"SCAN_DONE"}
    /\ Release(event_group_')
    /\ \E ap_records \in ScanLists :
         LET rest == Tail(events)
         IN  IF Len(ap_records) = 0
             THEN Rescan(connect_queue_, rest, "SCAN_DONE", ap_records, connect_queue_, << >>)
             ELSE \E sorted \in SortByRssi(ap_records) :
                    LET q == MatchKnown(sorted)
                    IN  IF q = << >>
                        THEN Rescan(q, rest, "SCAN_DONE", ap_records, q, << >>)
                        ELSE StartConnect(q, rest, "SCAN_DONE", ap_records, q, << >>)
    /\ join_launched' = (join_launched /\ "connect" \notin Cmds(last'.out))
    /\ UNCHANGED << was_connected_, instance_any_id_, instance_got_ip_, timer_handle_,
                    range_vars, wifi_started, timer_pc, portal_task >>
    /\ UNCHANGED board

\* WifiEventHandler, case WIFI_EVENT_STA_DISCONNECTED
RetryAllowedOffByOne == reconnect_count_ <= MAX_RECONNECT_COUNT
RetryAllowed == reconnect_count_ < MAX_RECONNECT_COUNT

\* what the retry branch issues: esp_wifi_connect() with the configuration the
\* driver holds
RetryCommandsAnnounced ==
    << Entry("on_connect", sta_config.ssid, 0),
       Entry("connect", sta_config.ssid, sta_config.bssid) >>
RetryCommands == << Entry("connect", sta_config.ssid, sta_config.bssid) >>

\* on_disconnected_ is called if was_connected_ was set, before anything else
\* the handler issues
NotifyDisconnectedAlways == << Entry("on_disconnected", "", 0) >>
NotifyDisconnected ==
    IF was_connected_ THEN << Entry("on_disconnected", "", 0) >> ELSE << >>

HandleDisconnected ==
    /\ events # << >>
    /\ Head(events).type = "STA_DISCONNECTED"
    /\ instance_any_id_
    /\ event_group_' = event_group_ \ {"CONNECTED"}
    /\ was_connected_' = FALSE
    /\ LET rest == Tail(events)
           out == NotifyDisconnected
       IN  IF RetryAllowed
           THEN /\ reconnect_count_' = reconnect_count_ + 1
                /\ sta' = Connect(sta, sta_config)
                /\ events' = rest
                /\ last' = Did("STA_DISCONNECTED", << >>, out \o RetryCommands, << >>)
                /\ same_retries' = same_retries + 1
                /\ UNCHANGED << connect_queue_, ssid_, password_, portal_vars, sta_config,
                                scanning, timer_armed,
                                scan_current_interval_microseconds_ >>
           ELSE IF connect_queue_ # << >>
                THEN StartConnect(connect_queue_, rest, "STA_DISCONNECTED", << >>, << >>, out)
                ELSE Rescan(connect_queue_, rest, "STA_DISCONNECTED", << >>, << >>, out)
    /\ join_launched' = FALSE
    /\ UNCHANGED << instance_any_id_, instance_got_ip_, timer_handle_, range_vars,
                    wifi_started, timer_pc, wait_vars, board, portal_task >>

\* IpEventHandler (IP_EVENT_STA_GOT_IP)
QueueAfterIpKept == connect_queue_
QueueAfterIp == << >>

\* xTaskCreate of StartPortalLogin: the task starts with the credentials it was
\* handed and the ssid of the moment
NewTask(username, password) ==
    [pc |-> "probe1", user |-> username, pass |-> password, current_ssid |-> ssid_,
     login_url |-> << >>, detected |-> FALSE, is_hijacked_200 |-> FALSE,
     posts |-> 0]                    \* POST requests performed so far

\* what a callback that reads the station finds
ContextView(bits, was_connected, count, queue, interval) ==
    [connected |-> "CONNECTED" \in bits, was_connected |-> was_connected,
     reconnect_count |-> count, connect_queue |-> queue, interval |-> interval]

\* on_connected_ and StartPortalLogin are called after the five assignments
OnConnectedSeesOld ==
    ContextView(event_group_, was_connected_, reconnect_count_, connect_queue_,
                scan_current_interval_microseconds_)
OnConnectedSees ==
    ContextView(event_group_', was_connected_', reconnect_count_', connect_queue_',
                scan_current_interval_microseconds_')

\* the handler, with launch saying what becomes of the task it creates
HandleGotIpThen(launch) ==
    /\ events # << >>
    /\ Head(events).type = "GOT_IP"
    /\ instance_got_ip_
    /\ events' = Tail(events)
    /\ event_group_' = event_group_ \cup {"CONNECTED"}
    /\ Release(event_group_')
    /\ was_connected_' = TRUE
    /\ reconnect_count_' = 0
    /\ connect_queue_' = QueueAfterIp
    /\ scan_current_interval_microseconds_' = scan_min_interval_microseconds_
    /\ last' = Did("GOT_IP", << connect_queue_, reconnect_count_, OnConnectedSees >>,
                   << Entry("on_connected", ssid_, 0) >> \o
                   (IF needs_portal_login_
                    THEN << Entry("StartPortalLogin", pending_portal_username_, 0) >>
                    ELSE << >>),
                   << >>)
    /\ same_retries' = 0
    /\ join_launched' = (join_launched \/ needs_portal_login_)
    /\ launch
    /\ UNCHANGED << instance_any_id_, instance_got_ip_, timer_handle_, ssid_, password_,
                    portal_vars, range_vars, driver_vars_but_events >>
    /\ UNCHANGED board

\* The handler returns as soon as xTaskCreate has returned. Here the task it
\* created is not followed: its steps touch nothing of the station.
HandleGotIp == HandleGotIpThen(UNCHANGED portal_task)

\* The same handler with the task it created followed through its steps; of
\* two tasks in flight the one created last is followed.
HandleGotIpLaunches ==
    HandleGotIpThen(portal_task' = IF needs_portal_login_
                                   THEN NewTask(pending_portal_username_,
                                                pending_portal_password_)
                                   ELSE portal_task)

\* --------------------------------------------------------- WaitForConnected
\* the bits xEventGroupWaitBits hands back: those that released a blocked
\* caller, else the group's bits when the call returns
ReturnedBits == IF wait_pc = "released" THEN wait_bits ELSE event_group_

WaitResultAnyBit == ReturnedBits \cap WaitedBits # {}
WaitResult == "CONNECTED" \in ReturnedBits

Returned(how) ==
    Did("WaitForConnected", << ReturnedBits, how >>,
        << Entry(IF WaitResult THEN "return_true" ELSE "return_false", "", 0) >>, << >>)

\* the call: it returns at once when a waited bit is set or the timeout is 0,
\* else the caller blocks
WaitForConnected(timeout_ticks) ==
    /\ wait_pc = "idle"
    /\ IF event_group_ \cap WaitedBits # {} \/ timeout_ticks = 0
       THEN /\ last' = Returned("at once")
            /\ UNCHANGED wait_vars
       ELSE /\ wait_pc' = "waiting"
            /\ wait_ticks' = timeout_ticks
            /\ wait_bits' = {}
            /\ last' = Quiet
    /\ UNCHANGED << station_vars, driver_vars, same_retries, task_vars >>
    /\ UNCHANGED board

WaitCall == \E t \in 0..MaxTimeoutTicks : WaitForConnected(t)

\* a tick passes for the blocked caller
WaitTick ==
    /\ wait_pc = "waiting"
    /\ wait_ticks' = wait_ticks - 1
    /\ wait_pc' = IF wait_ticks = 1 THEN "timedout" ELSE "waiting"
    /\ last' = Quiet
    /\ UNCHANGED << station_vars, driver_vars, wait_bits, same_retries, task_vars >>
    /\ UNCHANGED board

\* the caller runs again and WaitForConnected returns
WaitReturn ==
    /\ wait_pc \in {"released", "timedout"}
    /\ wait_pc' = "idle"
    /\ wait_bits' = {}
    /\ last' = Returned(wait_pc)
    /\ UNCHANGED << station_vars, driver_vars, wait_ticks, same_retries, task_vars >>
    /\ UNCHANGED board

\* ------------------------------------------------------------------- Spec
Next ==
    \/ Start
    \/ Stop
    \/ SetRange
    \/ TimerCallback
    \/ TimerCallbackScans
    \/ DriverScanDone
    \/ DriverConnectFails
    \/ DriverGotIp
    \/ DriverRenews
    \/ DriverLinkLost
    \/ DropEvent
    \/ HandleStaStart
    \/ HandleScanDone
    \/ HandleDisconnected
    \/ HandleGotIp

Spec == Init /\ [][Next]_vars

\* The event loop task delivers a queued event to its handler (or drops it when
\* the handler is unregistered) and the esp_timer task runs a due callback:
\* both tasks are scheduled as long as they have work.
EventLoop == DropEvent \/ HandleStaStart \/ HandleScanDone \/ HandleDisconnected \/ HandleGotIp
SpecFair == Spec /\ WF_vars(EventLoop) /\ WF_vars(TimerCallback \/ TimerCallbackScans)

\* The station as it runs with the scan interval range it was built with: the
\* caller starts and stops it, the driver completes what it was told to do (a
\* scan ends, a connect attempt fails or obtains an address, a link is lost),
\* the timer expires and the event loop delivers.  The driver finishes every
\* scan and every connect attempt it accepted.
NextRun ==
    \/ Start
    \/ Stop
    \/ TimerCallback
    \/ TimerCallbackScans
    \/ DriverScanDone
    \/ DriverConnectFails
    \/ DriverGotIp
    \/ DriverLinkLost
    \/ DropEvent
    \/ HandleStaStart
    \/ HandleScanDone
    \/ HandleDisconnected
    \/ HandleGotIp

DriverCompletes == DriverScanDone \/ DriverConnectFails \/ DriverGotIp

SpecRunFair ==
    /\ Init
    /\ [][NextRun]_vars
    /\ WF_vars(EventLoop)
    /\ WF_vars(TimerCallback \/ TimerCallbackScans)
    /\ WF_vars(DriverCompletes)

\* ------------------------------------------------------------ WifiBoard
\* int timeout_ticks = 60 * 1000 / 100: the polls of StartNetwork (600 in the
\* source), kept small here
StartupPolls == 2

\* settings.GetInt("force_ap") as the constructor may find it
ForceApValues == {0, 1}
\* ssid_manager.GetSsidList() as StartNetwork may find it
StoredSsidLists == { << >>, ssid_list }

\* WifiBoard::WifiBoard: wifi_config_mode_ = settings.GetInt("force_ap") == 1
WifiBoard(force_ap, stored) ==
    [pc |-> "constructed",
     wifi_config_mode_ |-> (force_ap = 1),
     ssid_list |-> stored,
     timeout_ticks |-> 0,
     force_ap |-> force_ap,          \* what the constructor read
     polls |-> 0]                    \* IsConnected() calls of the loop so far

\* wifi_manager.IsConnected()
IsConnected == "CONNECTED" \in event_group_

\* EnterWifiConfigMode: the configuration AP is started and the function loops
\* for ever
EnterWifiConfigMode(b) == [b EXCEPT !.pc = "config_mode"]

BoardAlone ==
    UNCHANGED << station_vars, driver_vars, wait_vars, same_retries, task_vars >>

\* StartNetwork up to its loop: configuration mode if it was forced or no
\* network is stored, else wifi_manager.StartStation() and the countdown
StartNetwork ==
    /\ board.pc = "constructed"
    /\ IF board.wifi_config_mode_
       THEN /\ board' = EnterWifiConfigMode(board)
            /\ last' = Did("StartNetwork", << >>, << Entry("EnterWifiConfigMode", "", 0) >>, << >>)
            /\ BoardAlone
       ELSE IF board.ssid_list = << >>
       THEN /\ board' = EnterWifiConfigMode([board EXCEPT !.wifi_config_mode_ = TRUE])
            /\ last' = Did("StartNetwork", << >>, << Entry("EnterWifiConfigMode", "", 0) >>, << >>)
            /\ BoardAlone
       ELSE StartBy(board' = [board EXCEPT !.pc = "poll", !.timeout_ticks = StartupPolls])

\* while (timeout_ticks > 0) { if (wifi_manager.IsConnected()) break;
PollConnected ==
    /\ board.pc = "poll"
    /\ board' = [board EXCEPT !.pc = IF IsConnected THEN "check" ELSE "delay",
                              !.polls = @ + 1]
    /\ last' = Did("IsConnected", << IsConnected >>, << >>, << >>)
    /\ BoardAlone

\* vTaskDelay(pdMS_TO_TICKS(100)); timeout_ticks--; }
PollDelay ==
    /\ board.pc = "delay"
    /\ board' = [board EXCEPT !.timeout_ticks = @ - 1,
                              !.pc = IF board.timeout_ticks - 1 > 0 THEN "poll" ELSE "check"]
    /\ last' = Did("vTaskDelay", << >>, << >>, << >>)
    /\ BoardAlone

\* if (!wifi_manager.IsConnected()) { StopStation(); wifi_config_mode_ = true;
\* EnterWifiConfigMode(); } else SNTP and time zone are set up and
\* StartNetwork returns
CheckConnected ==
    /\ board.pc = "check"
    /\ IF ~IsConnected
       THEN StopBy(board' = EnterWifiConfigMode([board EXCEPT !.wifi_config_mode_ = TRUE]))
       ELSE /\ board' = [board EXCEPT !.pc = "returned"]
            /\ last' = Did("StartNetwork", << IsConnected >>, << Entry("esp_sntp_init", "", 0) >>, << >>)
            /\ BoardAlone

InitBoard ==
    /\ InitStation
    /\ board \in { WifiBoard(f, l) : f \in ForceApValues, l \in StoredSsidLists }

\* the board's main task in StartNetwork, and beside it the station it started:
\* the timer, the driver and the event loop
NextBoard ==
    \/ StartNetwork
    \/ PollConnected
    \/ PollDelay
    \/ CheckConnected
    \/ TimerCallback
    \/ TimerCallbackScans
    \/ DriverScanDone
    \/ DriverConnectFails
    \/ DriverGotIp
    \/ DriverLinkLost
    \/ DropEvent
    \/ HandleStaStart
    \/ HandleScanDone
    \/ HandleDisconnected
    \/ HandleGotIp

SpecBoard == InitBoard /\ [][NextBoard]_vars

\* the same machine with a caller of WaitForConnected beside it
NextWait ==
    \/ Start
    \/ Stop
    \/ DriverScanDone
    \/ DriverConnectFails
    \/ DriverGotIp
    \/ DriverLinkLost
    \/ DropEvent
    \/ HandleStaStart
    \/ HandleScanDone
    \/ HandleDisconnected
    \/ HandleGotIp
    \/ WaitCall
    \/ WaitTick
    \/ WaitReturn

SpecWait == Init /\ [][NextWait]_vars

\* the tick interrupt keeps coming and a caller that was released or has timed
\* out is scheduled again
SpecWaitFair == SpecWait /\ WF_vars(WaitTick) /\ WF_vars(WaitReturn)

\* ------------------------------------------------ the "portal_login" task
\* The strings the task searches, compares and builds are sequences of
\* characters.
Str_http == << "h", "t", "t", "p", ":", "/", "/" >>
Str_login == << "l", "o", "g", "i", "n" >>
Str_slash_login == << "/", "l", "o", "g", "i", "n" >>
Str_generate_204 == << "g", "e", "n", "e", "r", "a", "t", "e", "_", "2", "0", "4" >>
Str_captive_apple == << "c", "a", "p", "t", "i", "v", "e", ".", "a", "p", "p", "l", "e", ".", "c", "o", "m" >>
Str_BUPT == << "B", "U", "P", "T" >>
Str_10 == << "1", "0", "." >>
Str_192_168 == << "1", "9", "2", ".", "1", "6", "8" >>
Str_172 == << "1", "7", "2", "." >>

\* the url of the first probe, "http://connect.rom.miui.com/generate_204"
MiuiProbeUrl ==
    << "h", "t", "t", "p", ":", "/", "/", "c", "o", "n", "n", "e", "c", "t",
       ".", "r", "o", "m", ".", "m", "i", "u", "i", ".", "c", "o", "m", "/",
       "g", "e", "n", "e", "r", "a", "t", "e", "_", "2", "0", "4" >>
\* the url of the second probe, "http://captive.apple.com/"
AppleProbeUrl ==
    << "h", "t", "t", "p", ":", "/", "/", "c", "a", "p", "t", "i", "v", "e",
       ".", "a", "p", "p", "l", "e", ".", "c", "o", "m", "/" >>
\* "http://10.3.8.216/login"
BuptLoginUrl ==
    << "h", "t", "t", "p", ":", "/", "/", "1", "0", ".", "3", ".", "8", ".",
       "2", "1", "6", "/", "l", "o", "g", "i", "n" >>

\* the characters of an ssid
Chars(ssid) ==
    CASE ssid = "CafeWifi"    -> << "C", "a", "f", "e", "W", "i", "f", "i" >>
      [] ssid = "Corp"        -> << "C", "o", "r", "p" >>
      [] ssid = "Home"        -> << "H", "o", "m", "e" >>
      [] ssid = "Lab"         -> << "L", "a", "b" >>
      [] ssid = "BUPT-portal" -> << "B", "U", "P", "T", "-", "p", "o", "r", "t", "a", "l" >>
      [] ssid = "BUPT-mobile" -> << "B", "U", "P", "T", "-", "m", "o", "b", "i", "l", "e" >>
      [] ssid = "BUPT-guest"  -> << "B", "U", "P", "T", "-", "g", "u", "e", "s", "t" >>
      [] ssid = "lab-BUPT"    -> << "l", "a", "b", "-", "B", "U", "P", "T" >>
      [] ssid = ""            -> << >>

\* the networks a portal account may be for
PortalSsids == { "CafeWifi", "BUPT-portal", "BUPT-mobile", "BUPT-guest", "lab-BUPT" }

\* std::string::find and strstr: the first position at which sub occurs in s,
\* 0 (npos, NULL) if it occurs nowhere
Find(s, sub) ==
    LET hits == { i \in 1..(Len(s) - Len(sub) + 1) : SubSeq(s, i, i + Len(sub) - 1) = sub }
    IN  IF hits = {} THEN 0 ELSE CHOOSE i \in hits : \A j \in hits : i <= j

\* strncmp(s, p, n) == 0: the first n characters agree, the end of a string
\* counting as a character
FirstChars(s, n) == SubSeq(s, 1, IF n <= Len(s) THEN n ELSE Len(s))
StrNCmpEqual(s, p, n) == FirstChars(s, n) = FirstChars(p, n)

\* inet_ntoa and esp_ip4addr_ntoa: an address of four octets in dotted decimal
DigitChars == << "0", "1", "2", "3", "4", "5", "6", "7", "8", "9" >>
RECURSIVE Decimal(_)
Decimal(n) ==
    IF n < 10 THEN << DigitChars[n + 1] >>
    ELSE Decimal(n \div 10) \o << DigitChars[(n % 10) + 1] >>
inet_ntoa(addr) ==
    Decimal(addr[1]) \o << "." >> \o Decimal(addr[2]) \o << "." >> \o
    Decimal(addr[3]) \o << "." >> \o Decimal(addr[4])

\* no address: gethostbyname failed, or the station has no netif
NoAddr == << >>
\* what gethostbyname can resolve a probe host to behind a portal
DnsAnswers ==
    { NoAddr, <<10, 0, 0, 1>>, <<192, 168, 1, 1>>, <<172, 16, 0, 1>>, <<172, 32, 0, 1>>,
      <<8, 8, 8, 8>> }
\* the default gateway esp_netif_get_ip_info reports
Gateways == { NoAddr, <<192, 168, 4, 1>> }

\* the values esp_http_client_get_header can hand back for "Location": "",
\* "http://p/login", "http://p/", "http://p", "http://login.p/a" and
\* "http://p/login.php"
LocationHeaders ==
    { << >>,
      << "h", "t", "t", "p", ":", "/", "/", "p", "/", "l", "o", "g", "i", "n" >>,
      << "h", "t", "t", "p", ":", "/", "/", "p", "/" >>,
      << "h", "t", "t", "p", ":", "/", "/", "p" >>,
      << "h", "t", "t", "p", ":", "/", "/", "l", "o", "g", "i", "n", ".", "p", "/", "a" >>,
      << "h", "t", "t", "p", ":", "/", "/", "p", "/", "l", "o", "g", "i", "n", ".", "p", "h", "p" >> }
\* the values esp_http_client_get_content_length can hand back (-1: chunked)
ContentLengths == { -1, 0, 1, 199, 200 }

\* What one esp_http_client_perform of a probe can end in: an error (timeout,
\* no route), a redirect with or without a Location value, a 200 with some
\* body length while the probe host resolves to some address, another status.
HttpOutcome(err, code, has_loc, loc, content_len, dns) ==
    [err |-> err, code |-> code, has_loc |-> has_loc, loc |-> loc,
     content_len |-> content_len, dns |-> dns]
HttpOutcomes ==
    { HttpOutcome("ESP_FAIL", 0, FALSE, << >>, 0, NoAddr) }
    \cup { HttpOutcome("ESP_OK", c, FALSE, << >>, 0, NoAddr) : c \in {204, 301, 302, 404} }
    \cup { HttpOutcome("ESP_OK", c, TRUE, l, 0, NoAddr) : c \in {301, 302}, l \in LocationHeaders }
    \cup { HttpOutcome("ESP_OK", 200, FALSE, << >>, n, a) : n \in ContentLengths, a \in DnsAnswers }

\* the three strncmp tests on the resolved address
PrivatePrefix(ip) ==
    \/ StrNCmpEqual(ip, Str_10, 3)
    \/ StrNCmpEqual(ip, Str_192_168, 7)
    \/ StrNCmpEqual(ip, Str_172, 4)

\* gethostbyname and the url built from the address it resolved to
FromDns(t, addr) ==
    IF addr # NoAddr /\ PrivatePrefix(inet_ntoa(addr))
    THEN [t EXCEPT !.login_url = Str_http \o inet_ntoa(addr) \o Str_slash_login,
                   !.detected = TRUE]
    ELSE t

\* the lambda check_redirect on the task's locals t, with what the request
\* ended in; detected takes the value it returns
check_redirect(url, t, o) ==
    IF o.err # "ESP_OK" THEN t
    ELSE IF o.code = 302 \/ o.code = 301
         THEN IF o.has_loc THEN [t EXCEPT !.login_url = o.loc, !.detected = TRUE] ELSE t
    ELSE IF o.code = 200
         THEN IF Find(url, Str_generate_204) # 0
              THEN FromDns([t EXCEPT !.is_hijacked_200 = TRUE], o.dns)
              ELSE IF Find(url, Str_captive_apple) # 0
                   THEN IF o.content_len > 0 /\ o.content_len < 200
                        THEN t
                        ELSE FromDns([t EXCEPT !.is_hijacked_200 = TRUE], o.dns)
                   ELSE t
    ELSE t

\* no step of the task writes a field of WifiStation, calls the driver or
\* posts an event
PortalFrameResetsRetries ==
    /\ reconnect_count_' = 0
    /\ UNCHANGED << event_group_, was_connected_, instance_any_id_, instance_got_ip_,
                    timer_handle_, connect_queue_, ssid_, password_, portal_vars, range_vars,
                    scan_current_interval_microseconds_, driver_vars, wait_vars, board, same_retries,
                    join_launched >>
PortalFrame ==
    UNCHANGED << station_vars, driver_vars, wait_vars, board, same_retries, join_launched >>

\* 1. the MIUI probe
PortalProbe1 ==
    /\ portal_task.pc = "probe1"
    /\ \E o \in HttpOutcomes :
         LET t == check_redirect(MiuiProbeUrl, portal_task, o)
         IN  /\ portal_task' = [t EXCEPT !.pc = IF t.detected THEN "post" ELSE "probe2"]
             /\ last' = Did("probe1", << o >>, << >>, << >>)
    /\ PortalFrame

\* 2. the Apple probe, made if the first one returned false
PortalProbe2 ==
    /\ portal_task.pc = "probe2"
    /\ \E o \in HttpOutcomes :
         LET t == check_redirect(AppleProbeUrl, portal_task, o)
         IN  /\ portal_task' = [t EXCEPT !.pc = IF t.detected THEN "post" ELSE "fallback"]
             /\ last' = Did("probe2", << o >>, << >>, << >>)
    /\ PortalFrame

\* the condition of the fallback besides !detected
FallbackAppliesAlways(t) == TRUE
FallbackApplies(t) == t.is_hijacked_200 \/ Find(Chars(t.current_ssid), Str_BUPT) # 0

\* 3. the fallback, reached if neither probe returned true
PortalFallback ==
    /\ portal_task.pc = "fallback"
    /\ \E gw \in Gateways :
         LET t == portal_task
             url == IF FallbackApplies(t)
                    THEN IF \/ Chars(t.current_ssid) = Chars("BUPT-portal")
                            \/ Chars(t.current_ssid) = Chars("BUPT-mobile")
                         THEN BuptLoginUrl
                         ELSE IF gw # NoAddr
                              THEN Str_http \o inet_ntoa(gw) \o Str_slash_login
                              ELSE t.login_url
                    ELSE t.login_url
         IN  /\ portal_task' = [t EXCEPT !.login_url = url, !.pc = "post"]
             /\ last' = Did("fallback", << gw >>, << >>, << >>)
    /\ PortalFrame

\* the url the POST goes to
post_url(login_url) ==
    IF Find(login_url, Str_login) = 0
    THEN IF login_url[Len(login_url)] = "/"
         THEN login_url \o Str_login
         ELSE login_url \o Str_slash_login
    ELSE login_url

\* whether the task posts
PostAllowedIfDetected(t) == t.detected /\ t.login_url # << >>
PostAllowed(t) == t.login_url # << >>

\* the POST, performed once whatever it ends in, or the warning that no login
\* url was determined
PortalPost ==
    /\ portal_task.pc = "post"
    /\ LET t == portal_task
       IN  IF PostAllowed(t)
           THEN \E err \in {"ESP_OK", "ESP_FAIL"} :
                  /\ portal_task' = [t EXCEPT !.pc = "exit", !.posts = t.posts + 1]
                  /\ last' = Did("post", << t.login_url, err >>,
                                 << [cmd |-> "POST", url |-> post_url(t.login_url),
                                     user |-> t.user, pass |-> t.pass] >>,
                                 << >>)
           ELSE /\ portal_task' = [t EXCEPT !.pc = "exit"]
                /\ last' = Did("post", << t.login_url, "skipped" >>, << >>, << >>)
    /\ PortalFrame

\* vTaskDelete(NULL)
PortalExit ==
    /\ portal_task.pc = "exit"
    /\ portal_task' = NoTask
    /\ last' = Did("vTaskDelete", << portal_task.posts >>, << >>, << >>)
    /\ PortalFrame

PortalStep == PortalProbe1 \/ PortalProbe2 \/ PortalFallback \/ PortalPost \/ PortalExit

\* The task on its own.  IpEventHandler is about to call StartPortalLogin: the
\* station is connected to a network of PortalSsids that StartConnect flagged
\* for portal login.
InitPortal ==
    /\ event_group_ = {"CONNECTED"}
    /\ was_connected_ = TRUE
    /\ instance_any_id_ = TRUE
    /\ instance_got_ip_ = TRUE
    /\ timer_handle_ = TRUE
    /\ connect_queue_ = << >>
    /\ ssid_ \in PortalSsids
    /\ password_ = ""
    /\ needs_portal_login_ = TRUE
    /\ pending_portal_username_ = "guest"
    /\ pending_portal_password_ = "pw-g"
    /\ reconnect_count_ = 0
    /\ scan_min_interval_microseconds_ = DefaultScanRange[1] * UnitsPerSecond
    /\ scan_max_interval_microseconds_ = DefaultScanRange[2] * UnitsPerSecond
    /\ scan_current_interval_microseconds_ = scan_min_interval_microseconds_
    /\ timer_armed = FALSE
    /\ timer_pc = "idle"
    /\ wifi_started = TRUE
    /\ scanning = FALSE
    /\ sta = "up"
    /\ sta_config = [ssid |-> ssid_, password |-> "pw-g", username |-> "guest",
                     authmode |-> "OPEN", bssid |-> 1]
    /\ events = << >>
    /\ wait_pc = "idle"
    /\ wait_ticks = 0
    /\ wait_bits = {}
    /\ last = Did("construct", << >>, << >>, << >>)
    /\ same_retries = 0
    /\ join_launched = FALSE
    /\ portal_task = NoTask
    /\ board = NoBoard

\* StartPortalLogin(pending_portal_username_, pending_portal_password_), called
\* when no task is in flight
StartPortalLogin ==
    /\ portal_task = NoTask
    /\ needs_portal_login_
    /\ portal_task' = NewTask(pending_portal_username_, pending_portal_password_)
    /\ last' = Did("StartPortalLogin", << ssid_ >>, << >>, << >>)
    /\ PortalFrame

NextPortalTask ==
    \/ StartPortalLogin
    \/ PortalProbe1
    \/ PortalProbe2
    \/ PortalFallback
    \/ PortalPost
    \/ PortalExit

SpecPortalTask == InitPortal /\ [][NextPortalTask]_vars

\* the scheduler runs the task (priority 5) whenever it is ready, and every
\* request of the task has a timeout
SpecPortalTaskFair == SpecPortalTask /\ WF_vars(PortalStep)

\* The station with the portal task it launches: the event loop, the timer
\* task and the portal task run side by side.
NextPortal ==
    \/ Start
    \/ TimerCallback
    \/ TimerCallbackScans
    \/ DriverScanDone
    \/ DriverConnectFails
    \/ DriverGotIp
    \/ DriverLinkLost
    \/ HandleStaStart
    \/ HandleScanDone
    \/ HandleDisconnected
    \/ HandleGotIpLaunches
    \/ PortalProbe1
    \/ PortalProbe2
    \/ PortalFallback
    \/ PortalPost
    \/ PortalExit

SpecPortal == Init /\ [][NextPortal]_vars

\* ------------------------------------------------ the ranker on its own
\* What SsidManager can hold: AddAuth hands any ssid and password on to it,
\* the empty ssid included.
EmptySsidEntry == [ssid |-> "", password |-> "pw-e", username |-> ""]
SsidLists ==
    { << >>,
      << ssid_list[1] >>,
      << ssid_list[3], ssid_list[2] >>,
      ssid_list,
      << ssid_list[1], EmptySsidEntry >>,
      << EmptySsidEntry >> \o ssid_list }

\* the scan asks for hidden access points too (show_hidden = true): they are
\* reported with an empty ssid
HiddenAp == [bssid |-> 5, ssid |-> "", authmode |-> "WPA2_PSK", rssi |-> -60]

\* records of distinct access points, in the order the driver reports them
RankScanLists ==
    { s \in UNION { [1..n -> ApRecords \cup {HiddenAp}] : n \in 0..MaxAps } :
        \A i, j \in 1..Len(s) : i # j => s[i].bssid # s[j].bssid }

\* HandleScanResult from the sort to the end of the candidate loop, for a scan
\* that reports at least one access point
RankScanResult ==
    \E list \in SsidLists, ap_records \in RankScanLists \ {<< >>} :
        \E sorted \in SortByRssi(ap_records) :
            /\ connect_queue_' = MatchKnownIn(list, sorted)
            /\ last' = Did("Rank", << list, ap_records >>, << >>, connect_queue_')
            /\ UNCHANGED << event_group_, was_connected_, instance_any_id_, instance_got_ip_,
                            timer_handle_, ssid_, password_, portal_vars, reconnect_count_,
                            range_vars, scan_current_interval_microseconds_, driver_vars,
                            wait_vars, board, same_retries, task_vars >>

NextRank == RankScanResult

SpecRank == Init /\ [][NextRank]_vars

TypeOK ==
    /\ event_group_ \subseteq {"CONNECTED", "STOPPED", "SCAN_DONE"}
    /\ reconnect_count_ \in 0..MAX_RECONNECT_COUNT
    /\ sta \in {"idle", "connecting", "up"}
    /\ wait_pc \in {"idle", "waiting", "timedout", "released"}
    /\ Len(events) <= MaxEvents + 2
    /\ Len(connect_queue_) <= MaxAps

\* ======================================================================
\* Claims
\* ======================================================================
KnownSsids == { ssid_list[i].ssid : i \in 1..Len(ssid_list) }
RssiOf(bssid, aps) == (CHOOSE r \in Range(aps) : r.bssid = bssid).rssi
HandledScanDone == last.op = "SCAN_DONE"

\* the queue is the ranking of the scan records aps: one candidate for each
\* record of a known ssid, none else, in descending signal strength
IsRankingOf(queue, aps) ==
    /\ { c.bssid : c \in Range(queue) } =
           { r.bssid : r \in { x \in Range(aps) : x.ssid \in KnownSsids } }
    /\ Len(queue) = Cardinality({ c.bssid : c \in Range(queue) })
    /\ \A c \in Range(queue) : \E r \in Range(aps) : r.bssid = c.bssid /\ r.ssid = c.ssid
    /\ \A i, j \in 1..Len(queue) :
           i < j => RssiOf(queue[i].bssid, aps) >= RssiOf(queue[j].bssid, aps)

\* C1: after HandleScanResult has processed a scan-done event, the queue it
\* built (before the head is popped) holds a candidate for exactly the scan
\* results of a known ssid, in descending signal strength; it is empty when no
\* scan result matches.
C1_QueueIsRanking == HandledScanDone => IsRankingOf(last.ranked, last.given)

\* C1 for the scans that report at least one access point
C1_NonEmptyScanRanked ==
    (HandledScanDone /\ last.given # << >>) => IsRankingOf(last.ranked, last.given)

\* C2: in a run of disconnect events that follows a connect command of
\* StartConnect, the re-connect command goes to that candidate at most 5 times
\* before the next candidate is popped or a rescan is scheduled.
C2_RetryBound == same_retries <= 5

C2_FifthRetry ==
    /\ last.op = "STA_DISCONNECTED"
    /\ same_retries = 5
    /\ sta_config # NoAp
    /\ "connect" \in Cmds(last.out)

\* C3: the backoff interval is at most the configured maximum, and every step
\* that lowers it is an IP-acquired event setting it to the configured minimum.
C3_IntervalAtMostMax ==
    scan_current_interval_microseconds_ <= scan_max_interval_microseconds_

C3_OnlyIpLowers ==
    [][ scan_current_interval_microseconds_' < scan_current_interval_microseconds_ =>
            /\ last'.op = "GOT_IP"
            /\ scan_current_interval_microseconds_' = scan_min_interval_microseconds_'
      ]_vars

C3_BackoffMonotone == []C3_IntervalAtMostMax /\ C3_OnlyIpLowers

\* C4: right after an IP-acquired event is handled the candidate queue is
\* empty and the retry counter is 0, whatever they were before the event.
HandledGotIp == last.op = "GOT_IP"
QueueBeforeIp == last.given[1]
CountBeforeIp == last.given[2]

PortalLaunched == "StartPortalLogin" \in Cmds(last.out)
JoinedNeedsPortal ==
    /\ sta_config # NoAp
    /\ sta_config.username # ""
    /\ sta_config.authmode \notin {"WPA2_ENTERPRISE", "WPA2_WPA3_ENTERPRISE"}

NoKnownIn(aps) == \A r \in Range(aps) : r.ssid \notin KnownSsids
Min(a, b) == IF a <= b THEN a ELSE b
UnproductiveScan == last.op = "SCAN_DONE" /\ NoKnownIn(last.given)

C6_NoConnect == UnproductiveScan => "connect" \notin Cmds(last.out)

C6_TimerArmedWithOldInterval ==
    [][ UnproductiveScan' =>
            /\ last'.out = << Entry("timer_start", "", scan_current_interval_microseconds_) >>
            /\ timer_armed'
      ]_vars

C6_IntervalDoubledAndCapped ==
    [][ UnproductiveScan' =>
            scan_current_interval_microseconds_' =
                Min(2 * scan_current_interval_microseconds_, scan_max_interval_microseconds_)
      ]_vars

C6_EmptyScanReschedules ==
    []C6_NoConnect /\ C6_TimerArmedWithOldInterval /\ C6_IntervalDoubledAndCapped

\* C7: after 5 disconnect events in a row for one candidate exactly 5
\* re-connect commands have gone to it, and the next disconnect event makes the
\* state machine move on: with a non-empty queue it pops the next candidate,
\* resets the retry counter to 0 and connects to it; with an empty queue it arms
\* the rescan timer with the current interval and doubles the interval.
HandledDisconnect == last.op = "STA_DISCONNECTED"
Retried == "connect" \in Cmds(last.out) /\ "on_connect" \notin Cmds(last.out)

C7_MovesOnOnlyAfterFive ==
    [][ (HandledDisconnect' /\ ~Retried') => reconnect_count_ = 5 ]_vars

C7_NextCandidate ==
    [][ (HandledDisconnect' /\ same_retries = 5 /\ connect_queue_ # << >>) =>
            /\ connect_queue_' = Tail(connect_queue_)
            /\ reconnect_count_' = 0
            /\ sta_config' = Head(connect_queue_)
            /\ last'.out[Len(last'.out)] =
                   Entry("connect", Head(connect_queue_).ssid, Head(connect_queue_).bssid)
      ]_vars

C7_RescanWhenQueueEmpty ==
    [][ (HandledDisconnect' /\ same_retries = 5 /\ connect_queue_ = << >>) =>
            /\ "connect" \notin Cmds(last'.out)
            /\ last'.out[Len(last'.out)] =
                   Entry("timer_start", "", scan_current_interval_microseconds_)
            /\ timer_armed'
            /\ scan_current_interval_microseconds_' =
                   Min(2 * scan_current_interval_microseconds_,
                       scan_max_interval_microseconds_)
      ]_vars

C7_AfterFiveDisconnects ==
    C7_MovesOnOnlyAfterFive /\ C7_NextCandidate /\ C7_RescanWhenQueueEmpty

\* C8: a disconnect event of an earlier candidate or attempt that is delivered
\* after StartConnect has moved on to a new candidate is ignored: the retry
\* counter is not incremented, no connect command is issued and the queue is
\* not advanced.
StaleDisconnectAtHead ==
    /\ events # << >>
    /\ Head(events).type = "STA_DISCONNECTED"
    /\ Head(events).stale
    /\ instance_any_id_

C8_StaleDisconnectIgnored ==
    [][ (StaleDisconnectAtHead /\ HandledDisconnect') =>
            /\ reconnect_count_' = reconnect_count_
            /\ "connect" \notin Cmds(last'.out)
            /\ connect_queue_' = connect_queue_
      ]_vars

\* C9: Stop may be called in any state; when it returns both event handlers
\* are unregistered, the timer is cancelled, the connected flag is clear and
\* the stopped flag is set; from then until the next Start no driver event or
\* timer expiry changes the connection context or issues a scan or connect
\* command.
Stopped == "STOPPED" \in event_group_

C9_StopPostcondition ==
    last.op = "Stop" =>
        /\ ~instance_any_id_ /\ ~instance_got_ip_
        /\ ~timer_handle_ /\ ~timer_armed
        /\ "CONNECTED" \notin event_group_
        /\ Stopped

C9_ContextKeptWhileStopped ==
    [][ (Stopped /\ last'.op \notin {"Start", "Stop", "SetScanIntervalRange"}) =>
            UNCHANGED context_vars
      ]_vars

C9_NoCommandWhileStopped ==
    [][ (Stopped /\ last'.op \notin {"Start", "Stop", "SetScanIntervalRange"}) =>
            Cmds(last'.out) \cap {"scan_start", "connect"} = {}
      ]_vars

C9_StopQuiesces ==
    []C9_StopPostcondition /\ C9_ContextKeptWhileStopped /\ C9_NoCommandWhileStopped

\* C10: WaitForConnected always returns; it returns true exactly when the
\* connected flag is set at the moment the wait ends, false when the stopped
\* flag is set without connected or the timeout elapses with neither flag; a
\* Stop issued while a caller waits releases it with false.
HandledWait == last.op = "WaitForConnected"
ReturnedTrue == Cmds(last.out) = {"return_true"}
BitsAtWaitEnd == last.given[1]
EndOfWait == last.given[2]

C10_TrueIffConnected == HandledWait => (ReturnedTrue <=> "CONNECTED" \in BitsAtWaitEnd)

C10_StopReleases ==
    [][ (wait_pc = "waiting" /\ last'.op = "Stop") =>
            (wait_pc' = "released" /\ wait_bits' \cap WaitedBits = {"STOPPED"})
      ]_vars

C10_ReleasedResult ==
    [][ (wait_pc = "released" /\ HandledWait') =>
            (BitsAtWaitEnd' = wait_bits /\ (ReturnedTrue' <=> "CONNECTED" \in wait_bits))
      ]_vars

C10_Returns == (wait_pc # "idle") ~> (wait_pc = "idle")

C10_WaitReturns ==
    []C10_TrueIffConnected /\ C10_StopReleases /\ C10_ReleasedResult /\ C10_Returns

\* a blocked caller that Stop released has returned false
C10_StoppedWaiterGotFalse ==
    /\ HandledWait
    /\ EndOfWait = "released"
    /\ "STOPPED" \in BitsAtWaitEnd
    /\ ~ReturnedTrue

\* ------------------------------------------------------------------ C11
\* a step of the portal task: a probe with its DNS lookup, the fallback, the
\* POST (whatever it ends in) or the exit
InFlight == portal_task # NoTask
TaskStepped == last.op \in {"probe1", "probe2", "fallback", "post", "vTaskDelete"}

\* C11: no step of the portal task changes the connected flag, the candidate
\* queue, the retry counter or the backoff interval; the IP-acquired handler
\* returns with the task created and none of its steps taken; and an event
\* whose handler is registered can be handled whatever the task is doing.
C11_StepsKeepStation ==
    [][ TaskStepped' =>
            UNCHANGED << event_group_, connect_queue_, reconnect_count_,
                         scan_current_interval_microseconds_ >>
      ]_vars

C11_HandlerDoesNotWait ==
    [][ (HandledGotIp' /\ PortalLaunched') =>
            (portal_task'.pc = "probe1" /\ portal_task'.posts = 0)
      ]_vars

C11_EventsNotBlocked ==
    (InFlight /\ events # << >> /\ Registered(Head(events))) =>
        ENABLED (HandleStaStart \/ HandleScanDone \/ HandleDisconnected \/ HandleGotIpLaunches)

C11_PortalDecoupled ==
    C11_StepsKeepStation /\ C11_HandlerDoesNotWait /\ []C11_EventsNotBlocked

\* a disconnect event was handled, and the connect retried, while the portal
\* task was between its first probe and its POST
C11_DisconnectHandledInFlight ==
    /\ HandledDisconnect
    /\ Retried
    /\ InFlight
    /\ portal_task.pc \in {"probe2", "fallback", "post"}

\* ------------------------------------------------------------------ C12
\* C12: when connect attempts keep ending in disconnect events and no IP is
\* acquired, on_disconnected notifications keep being delivered: a run in which
\* disconnect events are handled again and again while the connected bit is
\* never set delivers on_disconnected again and again.
Notified == "on_disconnected" \in Cmds(last.out)
C12_FailureObservable ==
    ([]<><<HandleDisconnected>>_vars /\ []("CONNECTED" \notin event_group_))
        => []<><<HandleDisconnected /\ Notified'>>_vars

\* ------------------------------------------------------------------ C13
HandledRank == last.op = "Rank"
RankedWith == last.given[1]
RankedScan == last.given[2]
SsidsOf(list) == { list[i].ssid : i \in 1..Len(list) }

\* C13: every candidate the ranker puts in the queue has a non-empty ssid that
\* is the ssid of an entry of the credential store the scan was matched
\* against, also when the scan reports hidden access points.
C13_CandidatesKnownNonEmpty ==
    HandledRank =>
        \A c \in Range(connect_queue_) : c.ssid # "" /\ c.ssid \in SsidsOf(RankedWith)

\* ------------------------------------------------------------------ C14
\* C14: after a scan-done event has been processed every candidate left in the
\* queue comes from a record of that scan, also for a scan that reported no
\* access point.
C14_QueueFromThisScan ==
    HandledScanDone =>
        \A c \in Range(connect_queue_) :
            \E r \in Range(last.given) : r.bssid = c.bssid /\ r.ssid = c.ssid

\* ------------------------------------------------------------------ C15
\* where the record of access point bssid stands in the scan results
ScanPosition(bssid, aps) == CHOOSE i \in 1..Len(aps) : aps[i].bssid = bssid

\* C15: candidates of equal signal strength stand in the queue in the order
\* in which the scan reported them.
C15_TiesInScanOrder ==
    (HandledScanDone /\ last.given # << >>) =>
        \A i, j \in 1..Len(last.ranked) :
            (i < j /\ RssiOf(last.ranked[i].bssid, last.given) =
                          RssiOf(last.ranked[j].bssid, last.given))
                => ScanPosition(last.ranked[i].bssid, last.given) <
                       ScanPosition(last.ranked[j].bssid, last.given)

\* ------------------------------------------------------------------ C16
SelectedCandidate == "on_connect" \in Cmds(last.out)

\* C16: the candidate StartConnect selects is connected with enterprise mode
\* enabled exactly when its auth mode is WPA2-enterprise or
\* WPA2/WPA3-enterprise, whatever its username; with a non-empty username and
\* another auth mode it is flagged for portal login and enterprise mode is
\* disabled.
C16_EnterpriseIffAuthMode ==
    SelectedCandidate =>
        /\ "ent_enable" \in Cmds(last.out) <=> sta_config.authmode \in EnterpriseModes
        /\ (sta_config.username # "" /\ sta_config.authmode \notin EnterpriseModes)
               => (needs_portal_login_ /\ "ent_disable" \in Cmds(last.out))

\* ------------------------------------------------------------------ C17
\* C17: a run of the portal task performs the POST exactly when a login url
\* was determined (login_url is not empty when the probes and the fallback
\* are over), performs it at most once whatever it ends in, and ends.
C17_AtMostOnePost == InFlight => portal_task.posts <= 1
C17_PostIffUrl ==
    (InFlight /\ portal_task.pc = "exit") =>
        (portal_task.posts = 1 <=> portal_task.login_url # << >>)
C17_Terminates == InFlight ~> ~InFlight
C17_PostOnceAndEnd == []C17_AtMostOnePost /\ []C17_PostIffUrl /\ C17_Terminates

\* the POST failed and the task is about to end, without a second request
C17_FailedPostNotRetried ==
    /\ last.op = "post"
    /\ last.given[2] = "ESP_FAIL"
    /\ InFlight
    /\ portal_task.pc = "exit"
    /\ portal_task.posts = 1

\* ------------------------------------------------------------------ C18
\* a probe that has just answered 200 as a hijack signal (the second probe
\* with a body of 1 to 199 bytes is no such signal)
HijackProbe ==
    /\ last.op \in {"probe1", "probe2"}
    /\ last.given[1].err = "ESP_OK"
    /\ last.given[1].code = 200
    /\ last.op = "probe2" =>
           ~(last.given[1].content_len > 0 /\ last.given[1].content_len < 200)
Resolved == last.given[1].dns
\* 10.0.0.0/8, 172.16.0.0/12 and 192.168.0.0/16
InPrivateRange(addr) ==
    \/ addr[1] = 10
    \/ addr[1] = 172 /\ addr[2] \in 16..31
    \/ addr[1] = 192 /\ addr[2] = 168

\* C18: after a probe answered 200 as a hijack signal the login url is
\* http://<address>/login if the probe host resolved to an address of
\* 10.0.0.0/8, 172.16.0.0/12 or 192.168.0.0/16, and no url is set by this step
\* for any other address or when the host did not resolve.
C18_SynthesizedIffPrivate ==
    HijackProbe =>
        IF Resolved # NoAddr /\ InPrivateRange(Resolved)
        THEN portal_task.login_url = Str_http \o inet_ntoa(Resolved) \o Str_slash_login
        ELSE portal_task.login_url = << >>

\* ------------------------------------------------------------------ C19
Posted == last.op = "post" /\ last.out # << >>
EndsWith(str, suffix) ==
    /\ Len(str) >= Len(suffix)
    /\ SubSeq(str, Len(str) - Len(suffix) + 1, Len(str)) = suffix

\* C19: the url the POST is sent to ends in /login, and it is the determined
\* login url itself when that already ends in /login.
C19_PostUrlEndsInLogin ==
    Posted =>
        /\ EndsWith(last.out[1].url, Str_slash_login)
        /\ EndsWith(last.given[1], Str_slash_login) => last.out[1].url = last.given[1]

\* ------------------------------------------------------------------ C20
\* C20: between a connect command and the next connect command or disconnect
\* event at most one portal task is launched: an IP-acquired event handled
\* after a launch, with no connect command and no disconnect event in between,
\* launches no second task.
C20_OncePerJoin == [][ (join_launched /\ HandledGotIp') => ~PortalLaunched' ]_vars

\* ------------------------------------------------------------------ C21
\* where the first entry of command cmd stands in out, 0 if there is none
PositionOf(cmd, out) ==
    LET hits == { i \in 1..Len(out) : out[i].cmd = cmd }
    IN  IF hits = {} THEN 0 ELSE CHOOSE i \in hits : \A j \in hits : i <= j
CountOf(cmd, out) == Cardinality({ i \in 1..Len(out) : out[i].cmd = cmd })
SeenByCallbacks == last.given[3]

\* C21: when an IP-acquired event has been handled the connected flag and the
\* was-connected flag are set and the backoff interval is the configured
\* minimum; on_connected was called once, with the ssid of the candidate
\* StartConnect selected last, before the portal task was launched, and what
\* the callback and the launch found is the state the handler leaves.
C21_IpHandled ==
    HandledGotIp =>
        /\ "CONNECTED" \in event_group_
        /\ was_connected_
        /\ scan_current_interval_microseconds_ = scan_min_interval_microseconds_
        /\ CountOf("on_connected", last.out) = 1
        /\ last.out[1] = Entry("on_connected", sta_config.ssid, 0)
        /\ PortalLaunched => PositionOf("StartPortalLogin", last.out) = 2
        /\ SeenByCallbacks =
               ContextView(event_group_, was_connected_, reconnect_count_, connect_queue_,
                           scan_current_interval_microseconds_)

\* an IP-acquired event handled after retries, with the portal task launched
C21_IpAfterRetriesWithPortal ==
    /\ HandledGotIp
    /\ PortalLaunched
    /\ CountBeforeIp > 0
    /\ SeenByCallbacks.reconnect_count = 0

\* ------------------------------------------------------------------ C22
\* C22: a disconnect event clears the connected flag and the was-connected
\* flag; on_disconnected is called exactly when the was-connected flag was set,
\* once and before the re-connect, the connect to the next candidate or the
\* arming of the rescan timer; a disconnect event that finds the flag clear
\* calls no on_disconnected.
C22_FlagsCleared ==
    HandledDisconnect => ("CONNECTED" \notin event_group_ /\ ~was_connected_)

C22_NotifiedIffWasConnected ==
    [][ HandledDisconnect' => (Notified' <=> was_connected_) ]_vars

C22_NotifiedFirst ==
    (HandledDisconnect /\ Notified) =>
        /\ PositionOf("on_disconnected", last.out) = 1
        /\ CountOf("on_disconnected", last.out) = 1
        /\ Len(last.out) > 1

C22_DisconnectNotifiesOnce ==
    []C22_FlagsCleared /\ C22_NotifiedIffWasConnected /\ []C22_NotifiedFirst

\* a lost connection: on_disconnected, then the re-connect
C22_LostConnectionNotified == HandledDisconnect /\ Notified /\ Retried

\* ------------------------------------------------------------------ C23
\* C23: a disconnect event handled while the retry counter is below 5 adds
\* one to the counter and issues the connect command again for the candidate
\* the driver is configured with; the target ssid and password, the queue, the
\* backoff interval, the portal flag and credentials and the timer stay as
\* they are, and on_connecting is not called.
C23_RetryFrame ==
    [][ (HandledDisconnect' /\ reconnect_count_ < 5) =>
            /\ reconnect_count_' = reconnect_count_ + 1
            /\ last'.out[Len(last'.out)] = Entry("connect", sta_config.ssid, sta_config.bssid)
            /\ CountOf("connect", last'.out) = 1
            /\ "on_connect" \notin Cmds(last'.out)
            /\ Cmds(last'.out) \subseteq {"on_disconnected", "connect"}
            /\ UNCHANGED << ssid_, password_, sta_config, connect_queue_,
                            scan_current_interval_microseconds_, portal_vars,
                            timer_handle_, timer_armed, range_vars >>
      ]_vars

\* the third retry for a candidate, with another candidate waiting in the queue
C23_RetryWithQueue ==
    /\ HandledDisconnect
    /\ Retried
    /\ reconnect_count_ = 3
    /\ connect_queue_ # << >>
    /\ sta_config # NoAp

\* ------------------------------------------------------------------ C24
\* the ssids of PortalSsids that match the institutional pattern, and those
\* among them that have a hardcoded login url
PatternSsids == { "BUPT-portal", "BUPT-mobile", "BUPT-guest", "lab-BUPT" }
RecognizedSsids == { "BUPT-portal", "BUPT-mobile" }
GatewayGiven == last.given[1]

\* C24: the second probe and the fallback are reached only while no login url
\* is determined; the fallback sets a url only after a hijack signal or for an
\* ssid of the institutional pattern: the hardcoded url for a recognized ssid,
\* http://<default gateway>/login for any other; a second probe answered with
\* 200 and a body of 1 to 199 bytes sets neither the hijack signal nor a url.
C24_LaterStepsOnlyWithoutUrl ==
    (InFlight /\ portal_task.pc \in {"probe2", "fallback"}) =>
        (portal_task.login_url = << >> /\ ~portal_task.detected)

C24_Fallback ==
    [][ last'.op = "fallback" =>
            portal_task'.login_url =
                IF ~(portal_task.is_hijacked_200 \/ portal_task.current_ssid \in PatternSsids)
                THEN << >>
                ELSE IF portal_task.current_ssid \in RecognizedSsids
                     THEN BuptLoginUrl
                     ELSE IF GatewayGiven' # NoAddr
                          THEN Str_http \o inet_ntoa(GatewayGiven') \o Str_slash_login
                          ELSE << >>
      ]_vars

C24_SmallBodyIsSuccess ==
    [][ ( /\ last'.op = "probe2"
          /\ last'.given[1].err = "ESP_OK"
          /\ last'.given[1].code = 200
          /\ last'.given[1].content_len > 0
          /\ last'.given[1].content_len < 200 ) =>
            /\ portal_task'.is_hijacked_200 = portal_task.is_hijacked_200
            /\ portal_task'.login_url = << >>
            /\ portal_task'.pc = "fallback"
      ]_vars

Running == wifi_started /\ instance_any_id_ /\ "STOPPED" \notin event_group_

\* Work is pending for the state machine: a scan or a connect attempt is
\* outstanding at the driver, the backoff timer is armed or its callback is
\* on its way to the scan, or an event waits for its handler.
SomethingPending ==
    \/ scanning
    \/ sta = "connecting"
    \/ timer_armed
    \/ timer_pc = "scan"
    \/ events # << >>

\* the step just taken issued a scan or a connect command
CommandIssued == Cmds(last.out) \cap {"scan_start", "connect"} # {}

C25_NeverIdle ==
    (Running /\ "CONNECTED" \notin event_group_) => SomethingPending

C25_EventuallyCommand ==
    (Running /\ "CONNECTED" \notin event_group_)
        ~> (CommandIssued \/ ~Running \/ "CONNECTED" \in event_group_)

ConnectionContext ==
    << ssid_, password_, reconnect_count_, scan_current_interval_microseconds_,
       was_connected_, connect_queue_ >>

\* operations that run on a caller's task or on the timer task
CallerOps == {"Start", "Stop", "SetScanIntervalRange", "TimerCallback", "WaitForConnected"}

\* C26: a step of an operation that runs outside the event loop (Start, Stop,
\* SetScanIntervalRange, the timer callback, WaitForConnected) leaves the
\* current candidate, the retry counter, the backoff interval, the
\* was-connected flag and the candidate queue as they were.
C26_OnlyHandlersWrite ==
    [][last'.op \in CallerOps => UNCHANGED ConnectionContext]_vars

\* ---------------------------------------------------------------- C27
\* C27: a scan or connect command issued while the station runs is taken up by
\* the driver.  The handlers and the timer callback go on after a command the
\* driver refused (nothing halts them), so a refused command is an ignored one.
C27_NoCommandRefused ==
    [][Running' =>
         /\ ("scan_start" \in Cmds(last'.out) => scanning')
         /\ ("connect" \in Cmds(last'.out) => sta' = "connecting")]_vars

\* ---------------------------------------------------------------- C28
\* C28: while the station runs, a scan and a connect attempt are not
\* outstanding together and the backoff timer is armed only when neither is.
C28_OneAtATime ==
    Running =>
        /\ ~(scanning /\ sta = "connecting")
        /\ (timer_armed => ~scanning /\ sta # "connecting")

\* ---------------------------------------------------------------- C29
\* what a step notified: the ssids given to on_connecting and to on_connected
Connecting(out) == { out[i].ssid : i \in { j \in 1..Len(out) : out[j].cmd = "on_connect" } }
ConnectedTo(out) == { out[i].ssid : i \in { j \in 1..Len(out) : out[j].cmd = "on_connected" } }

\* ssid_ is the ssid last given to on_connecting: a step that calls
\* on_connecting leaves ssid_ at the ssid it announced and no other step
\* changes ssid_ (it is empty until the first announcement).
C29_SsidIsLastAnnounced ==
    [][ IF Connecting(last'.out) # {}
        THEN Connecting(last'.out) = {ssid_'}
        ELSE ssid_' = ssid_ ]_vars

\* on_connected is given the ssid last announced, and one was announced
C29_ConnectedAsAnnounced ==
    [][ ConnectedTo(last'.out) # {} =>
            (ConnectedTo(last'.out) = {ssid_} /\ ssid_ # "") ]_vars

\* was_connected_ is set only by a step that calls on_connected, and
\* on_disconnected is called only when it is set and by a step that clears it:
\* between two calls of on_disconnected there is a call of on_connected.
C29_DisconnectedAfterConnected ==
    [][ /\ (was_connected_' /\ ~was_connected_) => ConnectedTo(last'.out) # {}
        /\ "on_disconnected" \in Cmds(last'.out) =>
               (was_connected_ /\ ~was_connected_' /\ ConnectedTo(last'.out) = {}) ]_vars

\* between handlers the connected bit and was_connected_ agree
C29_FlagsAgree == ("CONNECTED" \in event_group_) = was_connected_

\* C29: every on_connected(s) follows an on_connecting(s) for the same ssid
\* with no on_connecting for another ssid in between, every on_disconnected
\* follows an on_connected with no other on_disconnected in between, and
\* between handlers the connected bit equals the was-connected flag.
C29_NotificationsPaired ==
    /\ C29_SsidIsLastAnnounced
    /\ C29_ConnectedAsAnnounced
    /\ C29_DisconnectedAfterConnected
    /\ []C29_FlagsAgree

\* an address is obtained for the first candidate while another one waits in
\* the queue: on_connected names the candidate announced, both flags are set
C29_ConnectedToAnnounced ==
    /\ last.op = "GOT_IP"
    /\ last.given[1] # << >>
    /\ ConnectedTo(last.out) = {ssid_}
    /\ ssid_ = sta_config.ssid
    /\ was_connected_
    /\ "CONNECTED" \in event_group_
    /\ sta = "up"

\* ---------------------------------------------------------------- C30
\* C30: the stored range is a positive minimum not above the maximum, as every
\* range given to SetScanIntervalRange is, and the backoff interval lies
\* within it: no product and no doubling has wrapped.
C30_IntervalInRange ==
    /\ 0 < scan_min_interval_microseconds_
    /\ scan_min_interval_microseconds_ <= scan_current_interval_microseconds_
    /\ scan_current_interval_microseconds_ <= scan_max_interval_microseconds_

\* ---------------------------------------------------------------- C31
\* the force-configuration flag was set when the board was constructed
ForcedAtConstruction == board.force_ap = 1
\* the credential store was empty
NothingStored == board.ssid_list = << >>
\* every poll of the countdown was made and none found the station connected
PolledOut == board.timeout_ticks = 0 /\ board.polls = StartupPolls

\* C31: StartNetwork is in Wi-Fi configuration mode only if the
\* force-configuration flag was set at construction, or the credential store
\* is empty, or the station was not connected at any poll of the countdown.
C31_ConfigModeExactlyWhen ==
    board.pc = "config_mode" => (ForcedAtConstruction \/ NothingStored \/ PolledOut)
====
